---------------------------- MODULE Spec2Model ----------------------------
(***************************************************************************)
(* Chrono-Pulse sleep-disorder prediction service (backend/main.py).       *)
(*                                                                         *)
(* The module-level artifact load, the four endpoints and the helper       *)
(* generate_recommendations are modelled as a state machine.  Python       *)
(* numbers are held as records [k, v]: k = "fin" with v the value in       *)
(* tenths (6.5 is v = 65, the int 7 is v = 70), or k = "nan", "inf",       *)
(* "-inf" for the three non-finite floats.                                 *)
(***************************************************************************)
EXTENDS Integers, Sequences, FiniteSets, TLC

VARIABLES
    boot,           \* position of the module-level load (lines 26-38)
    loaded,         \* history: the files pickle.load has returned for
    model,          \* global `model`
    scaler,         \* global `scaler`
    feature_names,  \* global `feature_names`
    model_info,     \* global `model_info`
    req             \* the requests in flight, by request id

artifacts == <<model, scaler, feature_names, model_info>>
vars == <<boot, loaded, model, scaler, feature_names, model_info, req>>

---------------------------------------------------------------------------
(* Bounds of the model.                                                    *)

NumRequests == 2
MaxSchemaLen == 2

Requests == 1..NumRequests

---------------------------------------------------------------------------
(* Python numbers.                                                         *)

Fin(t) == [k |-> "fin", v |-> t]
PyInt(n) == Fin(10 * n)
NaN == [k |-> "nan", v |-> 0]
PosInf == [k |-> "inf", v |-> 0]
NegInf == [k |-> "-inf", v |-> 0]

IsFinite(x) == x.k = "fin"

\* x < y on Python floats: false when either side is NaN.
Lt(x, y) ==
    CASE x.k = "nan" \/ y.k = "nan" -> FALSE
      [] x.k = "-inf" -> y.k # "-inf"
      [] x.k = "inf" -> FALSE
      [] OTHER -> y.k = "inf" \/ (y.k = "fin" /\ x.v < y.v)

\* x - y and x * n for a finite y and a positive int n.
Minus(x, y) == IF x.k = "fin" THEN Fin(x.v - y.v) ELSE x
Times(x, n) == IF x.k = "fin" THEN Fin(x.v * n) ELSE x

---------------------------------------------------------------------------
(* Python containers.                                                      *)

Range(s) == {s[i] : i \in 1..Len(s)}

\* d[k] = v on a dict.
SetItem(d, k, v) == [x \in (DOMAIN d) \cup {k} |-> IF x = k THEN v ELSE d[x]]

\* dict(zip(keys, vals)): zip stops at the shorter, a later pair wins.
RECURSIVE DictZip(_, _, _)
DictZip(d, keys, vals) ==
    IF keys = <<>> \/ vals = <<>> THEN d
    ELSE DictZip(SetItem(d, Head(keys), Head(vals)), Tail(keys), Tail(vals))

EmptyDict == [x \in {} |-> 0]

---------------------------------------------------------------------------
(* Feature encoding, predict lines 100-136.                                *)

occupations ==
    <<"Accountant", "Doctor", "Engineer", "Lawyer", "Manager", "Nurse",
      "Sales Representative", "Salesperson", "Scientist",
      "Software Engineer", "Teacher">>

bmi_categories == <<"Normal", "Normal Weight", "Obese", "Overweight">>

\* f'Occupation_{occ}' for the names of the list.
OccupationColumn(occ) ==
    CASE occ = "Accountant" -> "Occupation_Accountant"
      [] occ = "Doctor" -> "Occupation_Doctor"
      [] occ = "Engineer" -> "Occupation_Engineer"
      [] occ = "Lawyer" -> "Occupation_Lawyer"
      [] occ = "Manager" -> "Occupation_Manager"
      [] occ = "Nurse" -> "Occupation_Nurse"
      [] occ = "Sales Representative" -> "Occupation_Sales Representative"
      [] occ = "Salesperson" -> "Occupation_Salesperson"
      [] occ = "Scientist" -> "Occupation_Scientist"
      [] occ = "Software Engineer" -> "Occupation_Software Engineer"
      [] occ = "Teacher" -> "Occupation_Teacher"

\* f'BMI Category_{bmi}' for the names of the list.
BmiColumn(bmi) ==
    CASE bmi = "Normal" -> "BMI Category_Normal"
      [] bmi = "Normal Weight" -> "BMI Category_Normal Weight"
      [] bmi = "Obese" -> "BMI Category_Obese"
      [] bmi = "Overweight" -> "BMI Category_Overweight"

\* The dict literal of lines 100-110.
NumericData(input_data) ==
    [n \in {"Age", "Sleep Duration", "Quality of Sleep",
            "Physical Activity Level", "Stress Level", "Heart Rate",
            "Daily Steps", "Systolic_BP", "Diastolic_BP"} |->
        CASE n = "Age" -> PyInt(input_data.age)
          [] n = "Sleep Duration" -> input_data.sleep_duration
          [] n = "Quality of Sleep" -> PyInt(input_data.quality_of_sleep)
          [] n = "Physical Activity Level" -> PyInt(input_data.physical_activity_level)
          [] n = "Stress Level" -> PyInt(input_data.stress_level)
          [] n = "Heart Rate" -> PyInt(input_data.heart_rate)
          [] n = "Daily Steps" -> PyInt(input_data.daily_steps)
          [] n = "Systolic_BP" -> PyInt(input_data.systolic_bp)
          [] n = "Diastolic_BP" -> PyInt(input_data.diastolic_bp)]

\* data['Gender_Male'] = 1 if input_data.gender == 'Male' else 0
GenderEncoded(data, input_data) ==
    SetItem(data, "Gender_Male", IF input_data.gender = "Male" THEN PyInt(1) ELSE PyInt(0))

\* The indicator written for one category of a one-hot loop.
IndicatorFlipped(value, cat) == IF value = cat THEN PyInt(0) ELSE PyInt(1)
Indicator(value, cat) == IF value = cat THEN PyInt(1) ELSE PyInt(0)

\* for occ in occupations[1:]: data[f'Occupation_{occ}'] = ...
RECURSIVE OccupationEncoded(_, _, _)
OccupationEncoded(data, cats, input_data) ==
    IF cats = <<>> THEN data
    ELSE OccupationEncoded(
            SetItem(data, OccupationColumn(Head(cats)),
                    Indicator(input_data.occupation, Head(cats))),
            Tail(cats), input_data)

\* for bmi in bmi_categories[1:]: data[f'BMI Category_{bmi}'] = ...
RECURSIVE BmiEncoded(_, _, _)
BmiEncoded(data, cats, input_data) ==
    IF cats = <<>> THEN data
    ELSE BmiEncoded(
            SetItem(data, BmiColumn(Head(cats)),
                    Indicator(input_data.bmi_category, Head(cats))),
            Tail(cats), input_data)

\* `data` as it stands at line 126.
EncodedData(input_data) ==
    BmiEncoded(
        OccupationEncoded(
            GenderEncoded(NumericData(input_data), input_data),
            Tail(occupations), input_data),
        Tail(bmi_categories), input_data)

\* The value written into a column the input did not produce (line 133).
MissingFeatureValueOne == PyInt(1)
MissingFeatureValue == PyInt(0)

\* for feature in feature_names: if feature not in input_df.columns: ...
RECURSIVE FillMissing(_, _)
FillMissing(input_df, names) ==
    IF names = <<>> THEN input_df
    ELSE FillMissing(
            IF Head(names) \in DOMAIN input_df THEN input_df
            ELSE SetItem(input_df, Head(names), MissingFeatureValue),
            Tail(names))

\* input_df[feature_names]: the row, one entry per name of the list.
SelectColumns(input_df, names) == [i \in 1..Len(names) |-> input_df[names[i]]]

\* The feature row handed to scaler.transform (lines 128-136).
FeatureRow(input_data, names) ==
    SelectColumns(FillMissing(EncodedData(input_data), names), names)

---------------------------------------------------------------------------
(* generate_recommendations, lines 167-195.  The messages are the source's *)
(* without their leading pictograph.                                       *)

MsgSleep == "Aim for 7-9 hours of sleep per night for optimal health"
MsgQuality ==
    "Focus on improving sleep quality - maintain a consistent sleep schedule"
MsgStress ==
    "Practice stress management techniques like meditation, yoga, or deep breathing"
MsgActivity ==
    "Increase physical activity to at least 30 minutes of moderate exercise daily"
MsgSteps == "Try to achieve at least 7,000-10,000 steps per day"
MsgHeart ==
    "Monitor your heart rate - consult a doctor if it remains consistently elevated"
MsgPressure ==
    "Your blood pressure is elevated - please consult a healthcare provider"
MsgDefault == "Your health metrics look good! Keep up the healthy habits"

\* recommendations.append(msg) under `if cond:`.
AppendIf(recommendations, cond, msg) ==
    IF cond THEN Append(recommendations, msg) ELSE recommendations

generate_recommendations_inclusive(data) ==
    LET r1 == AppendIf(<<>>, Lt(data.sleep_duration, PyInt(7)), MsgSleep)
        r2 == AppendIf(r1, data.quality_of_sleep <= 6, MsgQuality)
        r3 == AppendIf(r2, data.stress_level > 6, MsgStress)
        r4 == AppendIf(r3, data.physical_activity_level < 30, MsgActivity)
        r5 == AppendIf(r4, data.daily_steps < 5000, MsgSteps)
        r6 == AppendIf(r5, data.heart_rate > 90, MsgHeart)
        r7 == AppendIf(r6, data.systolic_bp > 130 \/ data.diastolic_bp > 85,
                       MsgPressure)
    IN  AppendIf(r7, r7 = <<>>, MsgDefault)

generate_recommendations(data) ==
    LET r1 == AppendIf(<<>>, Lt(data.sleep_duration, PyInt(7)), MsgSleep)
        r2 == AppendIf(r1, data.quality_of_sleep < 6, MsgQuality)
        r3 == AppendIf(r2, data.stress_level > 6, MsgStress)
        r4 == AppendIf(r3, data.physical_activity_level < 30, MsgActivity)
        r5 == AppendIf(r4, data.daily_steps < 5000, MsgSteps)
        r6 == AppendIf(r5, data.heart_rate > 90, MsgHeart)
        r7 == AppendIf(r6, data.systolic_bp > 130 \/ data.diastolic_bp > 85,
                       MsgPressure)
    IN  AppendIf(r7, r7 = <<>>, MsgDefault)

---------------------------------------------------------------------------
(* The artifacts.  A global holds [st, v]: st = "unbound" before its       *)
(* assignment has run, "none" for None, "obj" for an unpickled object v.   *)
(* The unpickled objects are opaque to main.py; each is modelled by a      *)
(* small family with the interface main.py uses:                           *)
(*   classifier  classes_, predict, predict_proba (aligned to classes_)    *)
(*   scaler      transform, which raises when the row's width is not the   *)
(*               fitted width or an entry is infinite                      *)
(*   feature_names  a list of column names                                 *)
(*   model_info  a dict with the six keys get_model_info reads             *)

NoClassifier == [classes_ |-> <<>>, bias |-> 0]
NoScaler == [n_features_in_ |-> 0, mean_ |-> 0]
NoSchema == <<>>
NoInfo == [model_name |-> "", accuracy |-> 0, precision |-> 0, recall |-> 0,
           f1_score |-> 0, classes |-> <<>>]

Unbound(dummy) == [st |-> "unbound", v |-> dummy]
None(dummy) == [st |-> "none", v |-> dummy]
Obj(o) == [st |-> "obj", v |-> o]

Classes3 == <<"Insomnia", "None", "Sleep Apnea">>
Classes2 == <<"Insomnia", "None">>

Classifiers == {[classes_ |-> Classes3, bias |-> 0],
                [classes_ |-> Classes2, bias |-> 1]}

Scalers == {[n_features_in_ |-> 2, mean_ |-> 5],
            [n_features_in_ |-> 3, mean_ |-> 0]}

ModelInfos == {[model_name |-> "Random Forest", accuracy |-> 91,
                precision |-> 90, recall |-> 91, f1_score |-> 90,
                classes |-> Classes3]}

\* Exceptions: the type and str(e).
Exc(type, msg) == [type |-> type, msg |-> msg]
NoExc == Exc("", "")

\* scaler.transform(row): the exception it raises, NoExc when it returns.
TransformRaises(sc, row) ==
    IF Len(row) # sc.n_features_in_
    THEN Exc("ValueError", "X has a different number of features than the scaler expects")
    ELSE IF \E i \in 1..Len(row) : row[i].k \in {"inf", "-inf"}
    THEN Exc("ValueError", "Input X contains infinity")
    ELSE NoExc

\* scaler.transform(row) when it returns: the fitted affine map.
Transform(sc, row) == [i \in 1..Len(row) |-> Minus(row[i], Fin(sc.mean_))]

\* model.predict / predict_proba raise on a NaN entry.
ClassifyRaises(clf, x) ==
    IF \E i \in 1..Len(x) : x[i].k = "nan"
    THEN Exc("ValueError", "Input X contains NaN")
    ELSE NoExc

RECURSIVE SumTenths(_)
SumTenths(x) == IF x = <<>> THEN 0 ELSE Head(x).v + SumTenths(Tail(x))

\* The index in classes_ of the class the decision rule picks.
Decision(clf, x) == (((SumTenths(x) \div 10) + clf.bias) % Len(clf.classes_)) + 1

\* model.predict(x)[0]
Predict(clf, x) == clf.classes_[Decision(clf, x)]

\* model.predict_proba(x)[0]: one probability per class of classes_.
PredictProba(clf, x) ==
    [i \in 1..Len(clf.classes_) |->
        IF i = Decision(clf, x) THEN Fin(10 - 2 * (Len(clf.classes_) - 1))
        ELSE Fin(2)]

\* {cls: float(prob * 100) for cls, prob in zip(model.classes_, proba)}
RECURSIVE ScaleAll(_)
ScaleAll(proba) ==
    IF proba = <<>> THEN <<>>
    ELSE <<Times(Head(proba), 100)>> \o ScaleAll(Tail(proba))

ConfidenceSkipFirst(classes_, proba) ==
    DictZip(EmptyDict, Tail(classes_), ScaleAll(Tail(proba)))
Confidence(classes_, proba) == DictZip(EmptyDict, classes_, ScaleAll(proba))

---------------------------------------------------------------------------
(* Requests and what a handler raises or returns.                          *)

Files == <<"best_model.pkl", "scaler.pkl", "feature_names.pkl", "model_info.pkl">>

HTTPException(status_code, detail) ==
    [type |-> "HTTPException", status_code |-> status_code, detail |-> detail]

NameError(name) == Exc("NameError", name)

NoOut == [kind |-> "none"]
Raise(e) == [kind |-> "raise", exc |-> e]
Return(body) == [kind |-> "return", body |-> body]

\* raise HTTPException(status_code=500, detail="Model not loaded")
ModelNotLoaded == HTTPException(500, <<"Model not loaded">>)

\* except Exception as e: raise HTTPException(500, f"Prediction error: {str(e)}")
PredictExceptReraise(e) == e
PredictExcept(e) == HTTPException(500, <<"Prediction error: ", e.msg>>)

\* except Exception as e: ...; model = None  (lines 36-38)
ModelKeptAfterLoadError(m) == m
ModelAfterLoadError(m) == None(NoClassifier)

NoInput ==
    [age |-> 0, gender |-> "", occupation |-> "", sleep_duration |-> Fin(0),
     quality_of_sleep |-> 0, physical_activity_level |-> 0, stress_level |-> 0,
     bmi_category |-> "", heart_rate |-> 0, daily_steps |-> 0,
     systolic_bp |-> 0, diastolic_bp |-> 0]

\* A record the recommendation rules find nothing to say about.
BaseInput ==
    [age |-> 35, gender |-> "Female", occupation |-> "Accountant",
     sleep_duration |-> Fin(75), quality_of_sleep |-> 8,
     physical_activity_level |-> 45, stress_level |-> 3,
     bmi_category |-> "Normal", heart_rate |-> 70, daily_steps |-> 8000,
     systolic_bp |-> 115, diastolic_bp |-> 75]

\* A record every recommendation rule fires on.
RiskInput ==
    [age |-> 52, gender |-> "Male", occupation |-> "Doctor",
     sleep_duration |-> Fin(50), quality_of_sleep |-> 4,
     physical_activity_level |-> 10, stress_level |-> 8,
     bmi_category |-> "Obese", heart_rate |-> 95, daily_steps |-> 2000,
     systolic_bp |-> 140, diastolic_bp |-> 90]

\* The request bodies of the service specification.
Inputs ==
    {BaseInput, RiskInput,
     [BaseInput EXCEPT !.sleep_duration = PosInf, !.occupation = "Pilot"],
     [RiskInput EXCEPT !.sleep_duration = NaN]}

\* The feature lists feature_names.pkl may hold in the service specification.
Schemas ==
    {<<"Age", "Sleep Duration">>,
     <<"Sleep Duration", "Occupation_Doctor", "Person ID">>}

Idle ==
    [pc |-> "idle", ep |-> "", inp |-> NoInput, data |-> EmptyDict,
     row |-> <<>>, x |-> <<>>, prediction |-> "", proba |-> <<>>,
     ran |-> <<>>, raised |-> NoExc, out |-> NoOut]

Init ==
    /\ boot = "best_model.pkl"
    /\ loaded = {}
    /\ model = Unbound(NoClassifier)
    /\ scaler = Unbound(NoScaler)
    /\ feature_names = Unbound(NoSchema)
    /\ model_info = Unbound(NoInfo)
    /\ req = [r \in Requests |-> Idle]

---------------------------------------------------------------------------
(* The module-level load, lines 26-38.                                     *)

LoadModel ==
    /\ boot = "best_model.pkl"
    /\ \E m \in Classifiers : model' = Obj(m)
    /\ loaded' = loaded \cup {boot}
    /\ boot' = "scaler.pkl"
    /\ UNCHANGED <<scaler, feature_names, model_info, req>>

LoadScaler ==
    /\ boot = "scaler.pkl"
    /\ \E s \in Scalers : scaler' = Obj(s)
    /\ loaded' = loaded \cup {boot}
    /\ boot' = "feature_names.pkl"
    /\ UNCHANGED <<model, feature_names, model_info, req>>

LoadFeatureNames ==
    /\ boot = "feature_names.pkl"
    /\ \E f \in Schemas : feature_names' = Obj(f)
    /\ loaded' = loaded \cup {boot}
    /\ boot' = "model_info.pkl"
    /\ UNCHANGED <<model, scaler, model_info, req>>

LoadModelInfo ==
    /\ boot = "model_info.pkl"
    /\ \E i \in ModelInfos : model_info' = Obj(i)
    /\ loaded' = loaded \cup {boot}
    /\ boot' = "serving"
    /\ UNCHANGED <<model, scaler, feature_names, req>>

\* open or pickle.load raises on the file the load stands at.
LoadError ==
    /\ boot \in Range(Files)
    /\ model' = ModelAfterLoadError(model)
    /\ boot' = "serving"
    /\ UNCHANGED <<loaded, scaler, feature_names, model_info, req>>

---------------------------------------------------------------------------
(* The endpoints.                                                          *)

Finish(r, out) ==
    req' = [req EXCEPT ![r].pc = "done", ![r].out = out]

\* A request arrives and its handler is called.
Receive(r, ep, inp) ==
    /\ boot = "serving"
    /\ req[r].pc = "idle"
    /\ req' = [req EXCEPT ![r].pc = "called", ![r].ep = ep, ![r].inp = inp]
    /\ UNCHANGED <<boot, loaded, model, scaler, feature_names, model_info>>

read_root(r) ==
    /\ req[r].pc = "called" /\ req[r].ep = "/"
    /\ Finish(r, Return([message |-> "Welcome to Chrono-Pulse AI API",
                         version |-> "1.0.0", status |-> "active"]))
    /\ UNCHANGED <<boot, loaded, model, scaler, feature_names, model_info>>

health_check(r) ==
    /\ req[r].pc = "called" /\ req[r].ep = "/health"
    /\ Finish(r, IF model.st = "unbound" THEN Raise(NameError("model"))
                 ELSE Return([status |-> "healthy",
                              model_loaded |-> model.st # "none"]))
    /\ UNCHANGED <<boot, loaded, model, scaler, feature_names, model_info>>

get_model_info(r) ==
    /\ req[r].pc = "called" /\ req[r].ep = "/model-info"
    /\ Finish(r, CASE model.st = "unbound" -> Raise(NameError("model"))
                   [] model.st = "none" -> Raise(ModelNotLoaded)
                   [] model_info.st = "unbound" -> Raise(NameError("model_info"))
                   [] OTHER -> Return(model_info.v))
    /\ UNCHANGED <<boot, loaded, model, scaler, feature_names, model_info>>

\* An exception raised inside predict's try block reaches its except clause.
Caught(r, ran, e) ==
    req' = [req EXCEPT ![r].pc = "done", ![r].ran = ran, ![r].raised = e,
                       ![r].out = Raise(PredictExcept(e))]

\* predict, lines 95-96: the readiness check.
predict_check_unguarded(r) ==
    /\ req[r].pc = "called" /\ req[r].ep = "/predict"
    /\ req' = [req EXCEPT ![r].pc = "encode"]
    /\ UNCHANGED <<boot, loaded, model, scaler, feature_names, model_info>>

predict_check(r) ==
    /\ req[r].pc = "called" /\ req[r].ep = "/predict"
    /\ CASE model.st = "unbound" ->
              req' = [req EXCEPT ![r].pc = "done",
                                 ![r].raised = NameError("model"),
                                 ![r].out = Raise(NameError("model"))]
         [] model.st = "none" ->
              req' = [req EXCEPT ![r].pc = "done",
                                 ![r].raised = ModelNotLoaded,
                                 ![r].out = Raise(ModelNotLoaded)]
         [] OTHER -> req' = [req EXCEPT ![r].pc = "encode"]
    /\ UNCHANGED <<boot, loaded, model, scaler, feature_names, model_info>>

\* predict, lines 100-136: the feature row.
predict_encode_in_place(r) ==
    /\ req[r].pc = "encode"
    /\ feature_names.st = "obj"
    /\ LET data == EncodedData(req[r].inp)
       IN  req' = [req EXCEPT
                ![r].pc = "scale", ![r].ran = Append(req[r].ran, "encode"),
                ![r].data = data,
                ![r].row = SelectColumns(FillMissing(data, feature_names.v),
                                         feature_names.v)]
    /\ feature_names' =
            IF "Gender_Male" \in Range(feature_names.v) THEN feature_names
            ELSE Obj(Append(feature_names.v, "Gender_Male"))
    /\ UNCHANGED <<boot, loaded, model, scaler, model_info>>

predict_encode(r) ==
    /\ req[r].pc = "encode"
    /\ LET ran == Append(req[r].ran, "encode")
           data == EncodedData(req[r].inp)
       IN  IF feature_names.st # "obj"
           THEN Caught(r, ran, NameError("feature_names"))
           ELSE req' = [req EXCEPT
                    ![r].pc = "scale", ![r].ran = ran, ![r].data = data,
                    ![r].row = SelectColumns(FillMissing(data, feature_names.v),
                                             feature_names.v)]
    /\ UNCHANGED <<boot, loaded, model, scaler, feature_names, model_info>>

\* predict, line 139: scaler.transform.
predict_scale(r) ==
    /\ req[r].pc = "scale"
    /\ LET ran == Append(req[r].ran, "scaler.transform")
       IN  IF scaler.st # "obj" THEN Caught(r, ran, NameError("scaler"))
           ELSE IF TransformRaises(scaler.v, req[r].row) # NoExc
           THEN Caught(r, ran, TransformRaises(scaler.v, req[r].row))
           ELSE req' = [req EXCEPT ![r].pc = "classify", ![r].ran = ran,
                                   ![r].x = Transform(scaler.v, req[r].row)]
    /\ UNCHANGED <<boot, loaded, model, scaler, feature_names, model_info>>

\* predict, lines 142-143: model.predict and model.predict_proba.
predict_classify(r) ==
    /\ req[r].pc = "classify"
    /\ LET ran == req[r].ran \o <<"model.predict", "model.predict_proba">>
       IN  IF model.st # "obj" THEN Caught(r, ran, Exc("AttributeError", "predict"))
           ELSE IF ClassifyRaises(model.v, req[r].x) # NoExc
           THEN Caught(r, Append(req[r].ran, "model.predict"),
                       ClassifyRaises(model.v, req[r].x))
           ELSE req' = [req EXCEPT ![r].pc = "respond", ![r].ran = ran,
                                   ![r].prediction = Predict(model.v, req[r].x),
                                   ![r].proba = PredictProba(model.v, req[r].x)]
    /\ UNCHANGED <<boot, loaded, model, scaler, feature_names, model_info>>

\* predict, lines 146-162: the response.
predict_respond(r) ==
    /\ req[r].pc = "respond"
    /\ IF model.st # "obj" THEN Caught(r, req[r].ran, Exc("AttributeError", "classes_"))
       ELSE IF model_info.st # "obj"
       THEN Caught(r, req[r].ran, NameError("model_info"))
       ELSE Finish(r, Return(
                [prediction |-> req[r].prediction,
                 confidence |-> Confidence(model.v.classes_, req[r].proba),
                 recommendations |-> generate_recommendations(req[r].inp),
                 model_info |-> [model_name |-> model_info.v.model_name,
                                 accuracy |-> model_info.v.accuracy]]))
    /\ UNCHANGED <<boot, loaded, model, scaler, feature_names, model_info>>

Startup == LoadModel \/ LoadScaler \/ LoadFeatureNames \/ LoadModelInfo \/ LoadError

Handle(r) ==
    \/ read_root(r)
    \/ health_check(r)
    \/ get_model_info(r)
    \/ predict_check(r)
    \/ predict_encode(r)
    \/ predict_scale(r)
    \/ predict_classify(r)
    \/ predict_respond(r)

Next ==
    \/ Startup
    \/ \E r \in Requests :
        \/ \E ep \in {"/", "/health", "/model-info"} : Receive(r, ep, NoInput)
        \/ \E inp \in Inputs : Receive(r, "/predict", inp)
        \/ Handle(r)

Spec == Init /\ [][Next]_vars

---------------------------------------------------------------------------
(* The encoder on its own: the service after a successful load, one        *)
(* request, the feature list and the request body drawn from wider sets.   *)

AllLoaded ==
    /\ boot = "serving"
    /\ loaded = Range(Files)
    /\ model = Obj([classes_ |-> Classes3, bias |-> 0])
    /\ scaler = Obj([n_features_in_ |-> 2, mean_ |-> 5])
    /\ model_info \in {Obj(i) : i \in ModelInfos}
    /\ req = [r \in Requests |-> Idle]

SeqsUpTo(S, n) == UNION {[1..k -> S] : k \in 0..n}

\* Names a feature list may hold: produced by the encoder, or not.
SchemaNames ==
    {"Age", "Sleep Duration", "Occupation_Teacher", "BMI Category_Obese",
     "Occupation_Accountant", "Person ID"}

\* Every column the encoder produces, in the order it produces them.
ProducedOrder ==
    <<"Age", "Sleep Duration", "Quality of Sleep", "Physical Activity Level",
      "Stress Level", "Heart Rate", "Daily Steps", "Systolic_BP",
      "Diastolic_BP", "Gender_Male", "Occupation_Doctor",
      "Occupation_Engineer", "Occupation_Lawyer", "Occupation_Manager",
      "Occupation_Nurse", "Occupation_Sales Representative",
      "Occupation_Salesperson", "Occupation_Scientist",
      "Occupation_Software Engineer", "Occupation_Teacher",
      "BMI Category_Normal Weight", "BMI Category_Obese",
      "BMI Category_Overweight">>

EncSchemas == SeqsUpTo(SchemaNames, MaxSchemaLen) \cup {ProducedOrder}

EncInputs ==
    {[BaseInput EXCEPT !.occupation = o, !.bmi_category = b, !.gender = g,
                       !.sleep_duration = s] :
        o \in Range(occupations) \cup {"Pilot", "doctor"},
        b \in Range(bmi_categories) \cup {"Underweight"},
        g \in {"Male", "Female"},
        s \in {Fin(65), NaN}}

InitEnc ==
    /\ AllLoaded
    /\ feature_names \in {Obj(f) : f \in EncSchemas}

NextEnc ==
    \/ \E inp \in EncInputs : Receive(1, "/predict", inp)
    \/ predict_check(1)
    \/ predict_encode(1)

SpecEnc == InitEnc /\ [][NextEnc]_vars

---------------------------------------------------------------------------
(* The recommendations on their own: one predict request over request      *)
(* bodies on both sides of every threshold.                                *)

RecInputs ==
    {[BaseInput EXCEPT !.sleep_duration = s, !.quality_of_sleep = q,
                       !.stress_level = st, !.physical_activity_level = a,
                       !.daily_steps = d, !.heart_rate = h,
                       !.systolic_bp = sy, !.diastolic_bp = di] :
        s \in {Fin(65), Fin(70), Fin(75), NaN, PosInf, NegInf},
        q \in {5, 6, 7}, st \in {6, 7}, a \in {29, 30}, d \in {4999, 5000},
        h \in {90, 91}, sy \in {130, 131}, di \in {85, 86}}

InitRec ==
    /\ AllLoaded
    /\ feature_names \in {Obj(<<"Age", "Stress Level">>),
                          Obj(<<"Age", "Sleep Duration">>)}

NextRec ==
    \/ \E inp \in RecInputs : Receive(1, "/predict", inp)
    \/ predict_check(1)
    \/ predict_encode(1)
    \/ predict_scale(1)
    \/ predict_classify(1)
    \/ predict_respond(1)

SpecRec == InitRec /\ [][NextRec]_vars

---------------------------------------------------------------------------
(* Properties.                                                             *)

Predicts == {r \in Requests : req[r].ep = "/predict"}

\* The predict requests whose feature row has been built.
Encoded == {r \in Predicts : req[r].ran # <<>> /\ req[r].raised.type # "NameError"}

\* The predict requests that have ended with an exception, with a response.
Failed == {r \in Predicts : req[r].pc = "done" /\ req[r].out.kind = "raise"}
Succeeded == {r \in Predicts : req[r].pc = "done" /\ req[r].out.kind = "return"}

OccupationColumns == {OccupationColumn(c) : c \in Range(Tail(occupations))}
BmiColumns == {BmiColumn(c) : c \in Range(Tail(bmi_categories))}

\* C1: while the Artifact Store is unloaded (one of the four loads failed),
\* every predict call that has run has ended with the "Model not loaded"
\* error, and no encoding, scaler.transform, model.predict or
\* model.predict_proba step was executed for it.
C1_UnloadedPredictFailsFirst ==
    (boot = "serving" /\ loaded # Range(Files)) =>
        \A r \in Predicts :
            req[r].pc # "called" =>
                /\ req[r].pc = "done"
                /\ req[r].out = Raise(ModelNotLoaded)
                /\ req[r].ran = <<>>

\* C1 witness: the classifier was unpickled, a later load failed, and a
\* predict call has been refused.
C1_Witness ==
    \E r \in Predicts :
        /\ "best_model.pkl" \in loaded /\ loaded # Range(Files)
        /\ req[r].pc = "done"
        /\ req[r].out = Raise(ModelNotLoaded)

\* C2: once serving, `model is not None` holds exactly when all four files
\* were unpickled, and that is the model_loaded flag health_check reports.
C2_ReadinessFlag ==
    boot = "serving" =>
        /\ model.st # "unbound"
        /\ (model.st # "none") <=> (loaded = Range(Files))
        /\ \A r \in Requests :
            (req[r].ep = "/health" /\ req[r].pc = "done") =>
                req[r].out = Return([status |-> "healthy",
                                     model_loaded |-> (loaded = Range(Files))])

\* C2 witness: only the last load failed and health_check has reported
\* model_loaded false.
C2_Witness ==
    \E r \in Requests :
        /\ loaded = {"best_model.pkl", "scaler.pkl", "feature_names.pkl"}
        /\ req[r].ep = "/health" /\ req[r].pc = "done"
        /\ req[r].out.body.model_loaded = FALSE

\* C3 as claimed: a failure of predict leaves predict as the exception the
\* failing step raised, uncaught, so that its kind tells the three kinds
\* of the taxonomy apart.
C3_FailurePropagatesUncaught ==
    \A r \in Failed : req[r].out.exc = req[r].raised

\* C3 as amended: every failure of predict is an HTTPException with status
\* 500; raised before the try block it has the detail "Model not loaded",
\* and any exception raised inside the try block is caught by predict and
\* replaced by one with the detail "Prediction error: " + str(e).
C3_FailuresWrapped ==
    \A r \in Failed :
        /\ req[r].out.exc.type = "HTTPException"
        /\ req[r].out.exc.status_code = 500
        /\ IF req[r].ran = <<>>
           THEN /\ model.st = "none"
                /\ req[r].out.exc.detail = <<"Model not loaded">>
           ELSE /\ model.st = "obj"
                /\ req[r].raised.type # "HTTPException"
                /\ req[r].out.exc.detail = <<"Prediction error: ", req[r].raised.msg>>

\* C3 witness: scaler.transform raised a ValueError and predict reported a
\* prediction error.
C3_Witness ==
    \E r \in Failed :
        /\ req[r].raised.type = "ValueError"
        /\ req[r].ran = <<"encode", "scaler.transform">>
        /\ req[r].out.exc.detail[1] = "Prediction error: "

\* C4 as claimed: the feature row built before scaling has one entry per
\* name of the feature list and every entry is a finite number.
C4_RowFinite ==
    \A r \in Encoded :
        /\ Len(req[r].row) = Len(feature_names.v)
        /\ \A i \in 1..Len(req[r].row) : IsFinite(req[r].row[i])

\* C5: when occupation (bmi_category) is a non-baseline category of the
\* hardcoded list, the indicator column named after it is 1 and it is the
\* only column of its group that is 1, in `data` and in the feature row.
C5_OneHot ==
    \A r \in Encoded :
        LET inp == req[r].inp
            data == req[r].data
            names == feature_names.v
        IN  /\ inp.occupation \in Range(Tail(occupations)) =>
                /\ data[OccupationColumn(inp.occupation)] = PyInt(1)
                /\ {c \in OccupationColumns : data[c] # PyInt(0)}
                        = {OccupationColumn(inp.occupation)}
                /\ \A i \in 1..Len(names) :
                    names[i] \in OccupationColumns =>
                        req[r].row[i] =
                            IF names[i] = OccupationColumn(inp.occupation)
                            THEN PyInt(1) ELSE PyInt(0)
            /\ inp.bmi_category \in Range(Tail(bmi_categories)) =>
                /\ data[BmiColumn(inp.bmi_category)] = PyInt(1)
                /\ {c \in BmiColumns : data[c] # PyInt(0)}
                        = {BmiColumn(inp.bmi_category)}
                /\ \A i \in 1..Len(names) :
                    names[i] \in BmiColumns =>
                        req[r].row[i] =
                            IF names[i] = BmiColumn(inp.bmi_category)
                            THEN PyInt(1) ELSE PyInt(0)

\* C5 witness: a Teacher with BMI category Obese, encoded against a feature
\* list that holds both indicator columns.
C5_Witness ==
    \E r \in Encoded :
        /\ req[r].inp.occupation = "Teacher"
        /\ req[r].inp.bmi_category = "Obese"
        /\ feature_names.v = <<"BMI Category_Obese", "Occupation_Teacher">>
        /\ req[r].row = <<PyInt(1), PyInt(1)>>

\* C6: an occupation outside the hardcoded list is encoded without an
\* exception, every occupation indicator is 0, and `data` and the feature
\* row are those of the same record with the baseline occupation.
C6_UnknownOccupation ==
    \A r \in Predicts :
        (req[r].inp.occupation \notin Range(occupations) /\ req[r].ran # <<>>) =>
            LET base == [req[r].inp EXCEPT !.occupation = occupations[1]]
            IN  /\ Head(req[r].ran) = "encode"
                /\ req[r].ran = <<"encode">> =>
                        (req[r].pc = "scale" /\ req[r].raised = NoExc)
                /\ \A c \in OccupationColumns : req[r].data[c] = PyInt(0)
                /\ req[r].data = EncodedData(base)
                /\ req[r].row = FeatureRow(base, feature_names.v)

\* C6 witness: the occupation "Pilot" encoded against every produced column.
C6_Witness ==
    \E r \in Encoded :
        /\ req[r].inp.occupation = "Pilot"
        /\ feature_names.v = ProducedOrder
        /\ req[r].pc = "scale"

RuleMessages ==
    <<MsgSleep, MsgQuality, MsgStress, MsgActivity, MsgSteps, MsgHeart,
      MsgPressure>>

\* Which of the seven rules of the table trigger, in the table's order.
Triggered(inp) ==
    <<Lt(inp.sleep_duration, Fin(70)), inp.quality_of_sleep < 6,
      inp.stress_level > 6, inp.physical_activity_level < 30,
      inp.daily_steps < 5000, inp.heart_rate > 90,
      inp.systolic_bp > 130 \/ inp.diastolic_bp > 85>>

RECURSIVE TriggeredMessages(_, _)
TriggeredMessages(inp, i) ==
    IF i > Len(RuleMessages) THEN <<>>
    ELSE (IF Triggered(inp)[i] THEN <<RuleMessages[i]>> ELSE <<>>)
            \o TriggeredMessages(inp, i + 1)

\* C7: the recommendations of a response are the messages of the triggered
\* rules, once each, in the fixed order; with no triggered rule they are the
\* default message alone; they are never empty.
C7_Recommendations ==
    \A r \in Succeeded :
        LET recs == req[r].out.body.recommendations
            inp == req[r].inp
        IN  /\ recs # <<>>
            /\ \A i \in 1..7 :
                Cardinality({j \in 1..Len(recs) : recs[j] = RuleMessages[i]})
                    = IF Triggered(inp)[i] THEN 1 ELSE 0
            /\ IF \E i \in 1..7 : Triggered(inp)[i]
               THEN recs = TriggeredMessages(inp, 1)
               ELSE recs = <<MsgDefault>>

\* C7 witness: a response for a sleep_duration of exactly 7 hours (the
\* first rule does not trigger) in which rules 2 and 7 alone triggered.
C7_Witness ==
    \E r \in Succeeded :
        /\ req[r].inp.sleep_duration = Fin(70)
        /\ req[r].out.body.recommendations = <<MsgQuality, MsgPressure>>

\* C8: in a successful response the prediction is a key of the confidence
\* mapping, and the mapping's keys are exactly model.classes_.
C8_ConfidenceKeys ==
    \A r \in Succeeded :
        /\ req[r].out.body.prediction \in DOMAIN req[r].out.body.confidence
        /\ DOMAIN req[r].out.body.confidence = Range(model.v.classes_)

\* C8 witness: a successful response of the three-class classifier.
C8_Witness ==
    \E r \in Succeeded :
        /\ Len(model.v.classes_) = 3
        /\ Cardinality(DOMAIN req[r].out.body.confidence) = 3

\* What a handler called alone returns or raises, given the artifacts.
Outcome(ep, inp) ==
    CASE ep = "/" ->
            Return([message |-> "Welcome to Chrono-Pulse AI API",
                    version |-> "1.0.0", status |-> "active"])
      [] ep = "/health" ->
            Return([status |-> "healthy", model_loaded |-> model.st = "obj"])
      [] ep = "/model-info" ->
            IF model.st = "obj" THEN Return(model_info.v) ELSE Raise(ModelNotLoaded)
      [] ep = "/predict" ->
            IF model.st # "obj" THEN Raise(ModelNotLoaded)
            ELSE LET row == FeatureRow(inp, feature_names.v)
                     x == Transform(scaler.v, row)
                 IN  IF TransformRaises(scaler.v, row) # NoExc
                     THEN Raise(PredictExcept(TransformRaises(scaler.v, row)))
                     ELSE IF ClassifyRaises(model.v, x) # NoExc
                     THEN Raise(PredictExcept(ClassifyRaises(model.v, x)))
                     ELSE Return(
                        [prediction |-> Predict(model.v, x),
                         confidence |-> Confidence(model.v.classes_,
                                                   PredictProba(model.v, x)),
                         recommendations |-> generate_recommendations(inp),
                         model_info |-> [model_name |-> model_info.v.model_name,
                                         accuracy |-> model_info.v.accuracy]])

\* C9: once serving, no step of any request changes model, scaler,
\* feature_names or model_info, whatever the interleaving, and every
\* finished request has the outcome its handler gives for its own input
\* and the artifacts as loaded.
C9_ArtifactsReadOnly ==
    /\ [][boot = "serving" => UNCHANGED artifacts]_vars
    /\ [](\A r \in Requests :
            req[r].pc = "done" => req[r].out = Outcome(req[r].ep, req[r].inp))

\* C9 witness: two requests are in the middle of predict at once, at
\* different steps.
C9_Witness ==
    \E r1, r2 \in Requests :
        /\ req[r1].pc = "scale"
        /\ req[r2].pc = "classify"

\* C10: entry i of the feature row is the value `data` holds for the i-th
\* name of the feature list, or 0 when `data` has no such column; the row
\* has no other entries, so the columns of `data` outside the list are gone.
C10_RowFollowsSchema ==
    \A r \in Encoded :
        LET names == feature_names.v
            data == req[r].data
        IN  /\ DOMAIN req[r].row = 1..Len(names)
            /\ data = EncodedData(req[r].inp)
            /\ \A i \in 1..Len(names) :
                /\ req[r].row[i] =
                    IF names[i] \in DOMAIN data THEN data[names[i]] ELSE PyInt(0)
                /\ names[i] = "Age" => req[r].row[i] = PyInt(req[r].inp.age)
                /\ names[i] = "Sleep Duration" =>
                        req[r].row[i] = req[r].inp.sleep_duration

\* C10 witness: a feature list that reorders, leaves out produced columns
\* and names a column the encoder does not produce.
C10_Witness ==
    \E r \in Encoded :
        /\ feature_names.v = <<"Person ID", "Age">>
        /\ req[r].row = <<PyInt(0), PyInt(35)>>
        /\ "Gender_Male" \in DOMAIN req[r].data

=============================================================================
